---- MODULE Spec2Model ----
(***************************************************************************)
(* Biopetrol monitor (src/biopetrol-monitor.py): the station tracker       *)
(* (ultimo_estado), the decision of verificar_surtidor, the retry loop of  *)
(* realizar_llamada_telefonica and the polling loop of monitor_continuo.   *)
(*                                                                         *)
(* Python strings are sequences of one-character strings, so that upper(), *)
(* lower(), the substring test and the parsing of the displayed level are  *)
(* computed as the code computes them.  The timestamp stored with each     *)
(* tracker entry (ultima_actualizacion) and the display-only fields of a   *)
(* record (hora_medicion, direccion, coordenadas) are read by no decision  *)
(* of the program and are left out.                                        *)
(***************************************************************************)
EXTENDS Integers, Sequences, FiniteSets

VARIABLES
    nombres_surtidores,    \* the watch list given to monitor_continuo
    CALLMEBOT_MAX_RETRIES, \* configuration read at start-up
    ultimo_estado,         \* global: exact station name -> [disponible, saldo]
    es_primera_ejecucion,  \* global flag
    enviar_alertas,        \* argument of the running verificar_surtidor pass
    pc,                    \* position of the single thread of control
    i,                     \* index of the for loop over nombres_surtidores
    pasadas,               \* completed passes over the watch list
    estacion,              \* local of verificar_surtidor: <<>> (None) or <<record>>
    existencia,            \* local: parsed level, -1 while unset
    previo,                \* local: <<>> or <<entry read at lines 291-292>>
    alerta,                \* local: the alert branch (309 / 339) was taken
    resultado,             \* return value of verificar_surtidor
    envios_eval,           \* alert messages sent by the running verificar_surtidor
    llamadas_eval,         \* voice calls invoked by the running verificar_surtidor
    intento,               \* loop variable of realizar_llamada_telefonica
    requests_llamada,      \* requests.get calls made by the running voice call
    esperas_llamada,       \* time.sleep calls made by the running voice call
    fallos_llamada,        \* attempts of the running voice call not classified success
    resultado_llamada,     \* "" while running, "True" / "False" once returned
    historial,             \* outcomes met by the voice call (kept by SpecLlamada only)
    ultima_pagina,         \* the page of the last fetch (kept by SpecFiltro only)
    alertas_telegram,      \* alert messages handed to enviar_mensaje_telegram
    llamadas,              \* invocations of realizar_llamada_telefonica
    mensaje_inicial,       \* "monitoring started" messages handed to Telegram
    halladas,              \* exact names of the records the filter has selected so far
    ultimo_envio,          \* "" or the value ("True" / "False") returned by the last
                           \* enviar_mensaje_telegram of the running frame
    excepcion,             \* "" or the exception that left the body of monitor_continuo
    pc_excepcion,          \* "" or the step that exception interrupted
    anuncio_detenido,      \* "monitoring stopped" messages handed to Telegram
    anuncios_error         \* error texts of the "monitoring failed" messages sent

vars == <<nombres_surtidores, CALLMEBOT_MAX_RETRIES, ultimo_estado,
          es_primera_ejecucion, enviar_alertas, pc, i, pasadas, estacion,
          existencia, previo, alerta, resultado, envios_eval, llamadas_eval,
          intento, requests_llamada, esperas_llamada, fallos_llamada,
          resultado_llamada, historial, ultima_pagina, alertas_telegram,
          llamadas,
          mensaje_inicial, halladas, ultimo_envio, excepcion, pc_excepcion,
          anuncio_detenido, anuncios_error>>

locales == <<estacion, existencia, previo, alerta, resultado, envios_eval,
             llamadas_eval, ultimo_envio>>
llamada_vars == <<intento, requests_llamada, esperas_llamada, fallos_llamada,
                  resultado_llamada>>
globales == <<ultimo_estado, es_primera_ejecucion>>
config == <<nombres_surtidores, CALLMEBOT_MAX_RETRIES>>
bucle == <<enviar_alertas, i, pasadas>>
contadores == <<alertas_telegram, llamadas, mensaje_inicial>>
terminacion == <<excepcion, pc_excepcion, anuncio_detenido, anuncios_error>>

----
\* Bounds of the model.

\* Passes over the watch list (the initial one included) a run may make.
MaxPasadas == 4
\* Largest value drawn for CALLMEBOT_MAX_RETRIES (line 61 reads it from the
\* environment; its default is 3).
MaxRetries == 3

----
\* Strings.

Minusculas == <<"a","b","c","d","e","f","g","h","i","j","k","l","m",
                "n","o","p","q","r","s","t","u","v","w","x","y","z">>
Mayusculas == <<"A","B","C","D","E","F","G","H","I","J","K","L","M",
                "N","O","P","Q","R","S","T","U","V","W","X","Y","Z">>

IndiceEn(c, alfabeto) ==
    IF \E k \in 1..Len(alfabeto) : alfabeto[k] = c
    THEN CHOOSE k \in 1..Len(alfabeto) : alfabeto[k] = c
    ELSE 0

Rango(alfabeto) == { alfabeto[k] : k \in 1..Len(alfabeto) }

AMayuscula == [c \in Rango(Minusculas) |-> Mayusculas[IndiceEn(c, Minusculas)]]
AMinuscula == [c \in Rango(Mayusculas) |-> Minusculas[IndiceEn(c, Mayusculas)]]

\* str.upper()
Upper(s) == [k \in 1..Len(s) |->
               IF s[k] \in DOMAIN AMayuscula THEN AMayuscula[s[k]] ELSE s[k]]

\* str.lower()
Lower(s) == [k \in 1..Len(s) |->
               IF s[k] \in DOMAIN AMinuscula THEN AMinuscula[s[k]] ELSE s[k]]

\* sub in s
Contiene(sub, s) ==
    \E k \in 0..(Len(s) - Len(sub)) : SubSeq(s, k + 1, k + Len(sub)) = sub

Decimales == <<"0","1","2","3","4","5","6","7","8","9">>

ValorDe == [c \in Rango(Decimales) |-> IndiceEn(c, Decimales) - 1]

\* "^2" stands for the superscript two: str.isdigit() accepts it, float() does not.
EsDigito(c) == c \in DOMAIN ValorDe \/ c = "^2"

NoEsSeparador(c) == c \notin {",", "."}

\* lines 279-280: drop ',' and '.', then keep the characters str.isdigit accepts
LimpiarExistencia(s) == SelectSeq(SelectSeq(s, NoEsSeparador), EsDigito)

RECURSIVE ValorDecimal(_)
ValorDecimal(s) ==
    IF s = <<>> THEN 0
    ELSE 10 * ValorDecimal(SubSeq(s, 1, Len(s) - 1))
         + ValorDe[s[Len(s)]]

\* float(existencia_str) raises ValueError
FloatFalla(s) == \E k \in 1..Len(s) : s[k] \notin DOMAIN ValorDe

\* line 281, when float() does not raise
ParsearExistencia(s) ==
    IF LimpiarExistencia(s) = <<>> THEN 0
    ELSE ValorDecimal(LimpiarExistencia(s))

\* lines 279-281 raise
ParseoFalla(s) ==
    LimpiarExistencia(s) # <<>> /\ FloatFalla(LimpiarExistencia(s))

----
\* The data source: what extraer_datos may return.

CHACO == <<"C","H","A","C","O">>
FORMOSA == <<"F","O","R","M","O","S","A">>
Nombres == {CHACO, FORMOSA}

Existencias == { <<"0">>,
                 <<"5","0","0","0">>,
                 <<"8",".","0","0","0">>,
                 <<"N","/","A">>,
                 <<"5","^2">> }

Registros == [nombre : Nombres, existencia_litros : Existencias]

\* [] on a failed request, else the cards of the page in page order
Paginas == { <<>> }
           \cup { <<r>> : r \in Registros }
           \cup { p \in { <<r, s>> : r \in Registros, s \in Registros } :
                      p[1].nombre # p[2].nombre }

\* The watch lists a run may be started with.
Fragmento_chaco == <<"c","h","a","c","o">>
Fragmento_O == <<"O">>
ListasVigiladas == { <<CHACO>>, <<CHACO, FORMOSA>>, <<Fragmento_O, Fragmento_chaco>> }

----
\* Voice-call outcomes of one requests.get.

Cuerpos == { <<"C","a","l","l"," ","Q","u","e","u","e","d">>,
             <<"s","u","c","c","e","s","s"," ","b","u","s","y">>,
             <<"L","i","n","e"," ","b","u","s","y">>,
             <<"e","r","r","o","r">> }

Respuestas == [tipo : {"respuesta"}, status_code : {200, 500}, text : Cuerpos]
              \cup [tipo : {"timeout", "excepcion"}, status_code : {0}, text : {<<>>}]

QUEUED == <<"q","u","e","u","e","d">>
SUCCESS == <<"s","u","c","c","e","s","s">>

EsExito_sensibleMayusculas(r) ==
    /\ r.tipo = "respuesta"
    /\ r.status_code = 200
    /\ (Contiene(QUEUED, r.text) \/ Contiene(SUCCESS, r.text))

\* lines 132-136: the attempt returns True
EsExito(r) ==
    /\ r.tipo = "respuesta"
    /\ r.status_code = 200
    /\ (Contiene(QUEUED, Lower(r.text)) \/ Contiene(SUCCESS, Lower(r.text)))

----
\* verificar_surtidor: the decision.

RECURSIVE FiltrarEstacion_ultimaCoincidencia(_, _)
FiltrarEstacion_ultimaCoincidencia(nombre_surtidor, estaciones) ==
    IF estaciones = <<>> THEN <<>>
    ELSE IF FiltrarEstacion_ultimaCoincidencia(nombre_surtidor, Tail(estaciones)) # <<>>
         THEN FiltrarEstacion_ultimaCoincidencia(nombre_surtidor, Tail(estaciones))
         ELSE IF Contiene(Upper(nombre_surtidor), Upper(Head(estaciones).nombre))
              THEN <<Head(estaciones)>>
              ELSE <<>>

\* lines 263-267: the first record whose name contains the fragment, <<>> if none
RECURSIVE FiltrarEstacion(_, _)
FiltrarEstacion(nombre_surtidor, estaciones) ==
    IF estaciones = <<>> THEN <<>>
    ELSE IF Contiene(Upper(nombre_surtidor), Upper(Head(estaciones).nombre))
         THEN <<Head(estaciones)>>
         ELSE FiltrarEstacion(nombre_surtidor, Tail(estaciones))

HayNuevaCarga_mayorIgual(nivel, saldo_anterior) == nivel >= saldo_anterior

\* line 295
HayNuevaCarga(nivel, saldo_anterior) == nivel > saldo_anterior

DebeAlertarConocida_sinDisponible(primera, disponible, hay_nueva_carga, estado_anterior, enviar) ==
    ~primera /\ (hay_nueva_carga \/ ~estado_anterior) /\ enviar

DebeAlertarConocida_soloTransicion(primera, disponible, hay_nueva_carga, estado_anterior, enviar) ==
    ~primera /\ disponible /\ ~estado_anterior /\ enviar

DebeAlertarConocida_sinTransicion(primera, disponible, hay_nueva_carga, estado_anterior, enviar) ==
    ~primera /\ disponible /\ hay_nueva_carga /\ estado_anterior /\ enviar

\* line 309: the station has an entry
DebeAlertarConocida(primera, disponible, hay_nueva_carga, estado_anterior, enviar) ==
    ~primera /\ disponible /\ (hay_nueva_carga \/ ~estado_anterior) /\ enviar

DebeAlertarNueva_sinGuardas(primera, disponible, enviar) == disponible

DebeAlertarNueva_nunca(primera, disponible, enviar) == FALSE

\* line 339: the station has no entry yet
DebeAlertarNueva(primera, disponible, enviar) ==
    ~primera /\ disponible /\ enviar

Registrar_soloClave(estado, key, disponible, saldo) ==
    [k \in {key} |-> [disponible |-> disponible, saldo |-> saldo]]

Registrar_sinActualizar(estado, key, disponible, saldo) == estado

Registrar_marcaOtros(estado, key, disponible, saldo) ==
    [k \in DOMAIN estado \cup {key} |->
        IF k = key THEN [disponible |-> disponible, saldo |-> saldo]
        ELSE [disponible |-> FALSE, saldo |-> estado[k].saldo]]

Registrar_guardaMaximo(estado, key, disponible, saldo) ==
    [k \in DOMAIN estado \cup {key} |->
        IF k = key
        THEN [disponible |-> disponible,
              saldo |-> IF key \in DOMAIN estado /\ estado[key].saldo > saldo
                        THEN estado[key].saldo ELSE saldo]
        ELSE estado[k]]

\* lines 298-302 and 332-336
Registrar(estado, key, disponible, saldo) ==
    [k \in DOMAIN estado \cup {key} |->
        IF k = key THEN [disponible |-> disponible, saldo |-> saldo]
        ELSE estado[k]]

SinLocales ==
    /\ estacion' = <<>>
    /\ existencia' = -1
    /\ previo' = <<>>
    /\ alerta' = FALSE
    /\ resultado' = FALSE
    /\ envios_eval' = 0
    /\ llamadas_eval' = 0
    /\ ultimo_envio' = ""

SinLlamada ==
    /\ intento' = 0
    /\ requests_llamada' = 0
    /\ esperas_llamada' = 0
    /\ fallos_llamada' = 0
    /\ resultado_llamada' = ""

----
\* The state after the module is loaded and monitor_continuo is entered.

InicioComun ==
    /\ ultimo_estado = << >>
    /\ es_primera_ejecucion = TRUE
    /\ enviar_alertas = FALSE
    /\ i = 0
    /\ pasadas = 0
    /\ estacion = <<>>
    /\ existencia = -1
    /\ previo = <<>>
    /\ alerta = FALSE
    /\ resultado = FALSE
    /\ envios_eval = 0
    /\ llamadas_eval = 0
    /\ halladas = {}
    /\ intento = 0
    /\ requests_llamada = 0
    /\ esperas_llamada = 0
    /\ fallos_llamada = 0
    /\ resultado_llamada = ""
    /\ historial = <<>>
    /\ ultima_pagina = <<>>
    /\ alertas_telegram = 0
    /\ llamadas = 0
    /\ mensaje_inicial = 0
    /\ ultimo_envio = ""
    /\ excepcion = ""
    /\ pc_excepcion = ""
    /\ anuncio_detenido = 0
    /\ anuncios_error = <<>>

Init ==
    /\ nombres_surtidores \in ListasVigiladas
    /\ CALLMEBOT_MAX_RETRIES \in 0..MaxRetries
    /\ pc = "inicio"
    /\ InicioComun

----
\* monitor_continuo and verificar_surtidor, one action per step.

\* line 405: the start announcement; its result is discarded.
\* lines 409-410: the initial pass starts with enviar_alertas=False.
MensajeInicial ==
    /\ pc = "inicio"
    /\ mensaje_inicial' = mensaje_inicial + 1
    /\ enviar_alertas' = FALSE
    /\ i' = 1
    /\ pc' = "extraer"
    /\ \E ok \in {"True", "False"} : ultimo_envio' = ok
    /\ UNCHANGED <<config, globales, pasadas, estacion, existencia, previo,
                   alerta, resultado, envios_eval, llamadas_eval,
                   llamada_vars, historial, ultima_pagina, alertas_telegram,
                   llamadas, halladas, terminacion>>

ExtraerCon_marcaAusente(estaciones) ==
    /\ pc = "extraer"
    /\ LET hallada == FiltrarEstacion(nombres_surtidores[i], estaciones) IN
       IF estaciones = <<>> \/ hallada = <<>>
       THEN /\ estacion' = <<>>
            /\ resultado' = FALSE
            /\ halladas' = halladas
            /\ ultimo_estado' =
                   Registrar(ultimo_estado, nombres_surtidores[i], FALSE, 0)
            /\ pc' = "retorno"
       ELSE /\ estacion' = hallada
            /\ resultado' = resultado
            /\ halladas' = halladas \cup {hallada[1].nombre}
            /\ ultimo_estado' = ultimo_estado
            /\ pc' = "evaluar"
    /\ UNCHANGED <<config, es_primera_ejecucion, bucle, existencia, previo,
                   alerta, envios_eval, llamadas_eval, llamada_vars, historial,
                   contadores, terminacion>>
    /\ ultimo_envio' = ""

\* lines 256-275 for the fetched page `estaciones`
ExtraerCon(estaciones) ==
    /\ pc = "extraer"
    /\ LET hallada == FiltrarEstacion(nombres_surtidores[i], estaciones) IN
       IF estaciones = <<>> \/ hallada = <<>>
       THEN /\ estacion' = <<>>
            /\ resultado' = FALSE
            /\ halladas' = halladas
            /\ pc' = "retorno"
       ELSE /\ estacion' = hallada
            /\ resultado' = resultado
            /\ halladas' = halladas \cup {hallada[1].nombre}
            /\ pc' = "evaluar"
    /\ ultimo_envio' = ""
    /\ UNCHANGED <<config, globales, bucle, existencia, previo, alerta,
                   envios_eval, llamadas_eval, llamada_vars, historial,
                   contadores, terminacion>>

\* lines 256-275: extraer_datos returns any page, or [] on a failed request
ExtraerYFiltrar ==
    \E estaciones \in Paginas :
        ExtraerCon(estaciones) /\ UNCHANGED ultima_pagina

\* lines 278-372 up to the alert decision
Evaluar ==
    /\ pc = "evaluar"
    /\ LET e == estacion[1]
           key == e.nombre
           nivel == ParsearExistencia(e.existencia_litros)
           disponible == nivel > 0
       IN
       IF ParseoFalla(e.existencia_litros)
       THEN \* lines 370-372
            /\ resultado' = FALSE
            /\ pc' = "retorno"
            /\ UNCHANGED <<ultimo_estado, existencia, previo, alerta>>
       ELSE /\ existencia' = nivel
            /\ resultado' = disponible
            /\ ultimo_estado' = Registrar(ultimo_estado, key, disponible, nivel)
            /\ IF key \in DOMAIN ultimo_estado
               THEN /\ previo' = <<ultimo_estado[key]>>
                    /\ alerta' = DebeAlertarConocida(
                                     es_primera_ejecucion, disponible,
                                     HayNuevaCarga(nivel, ultimo_estado[key].saldo),
                                     ultimo_estado[key].disponible, enviar_alertas)
               ELSE /\ previo' = <<>>
                    /\ alerta' = DebeAlertarNueva(
                                     es_primera_ejecucion, disponible, enviar_alertas)
            /\ pc' = IF alerta' THEN "telegram" ELSE "retorno"
    /\ UNCHANGED <<config, es_primera_ejecucion, bucle, estacion, envios_eval,
                   llamadas_eval, ultimo_envio, llamada_vars, historial,
                   ultima_pagina,
                   contadores, halladas, terminacion>>

EnviarAlertaTelegram_sinLlamadaSiFalla ==
    /\ pc = "telegram"
    /\ alertas_telegram' = alertas_telegram + 1
    /\ envios_eval' = envios_eval + 1
    /\ \E ok \in {"True", "False"} :
          /\ ultimo_envio' = ok
          /\ pc' = IF ok = "True" THEN "llamar" ELSE "retorno"
    /\ UNCHANGED <<config, globales, bucle, estacion, existencia, previo, alerta,
                   resultado, llamadas_eval, llamada_vars, historial,
                   ultima_pagina, llamadas,
                   mensaje_inicial, halladas, terminacion>>

\* lines 320 / 351: one send of the alert message (lines 75-101: True on status
\* 200, False on any other status or exception); its result is discarded
EnviarAlertaTelegram ==
    /\ pc = "telegram"
    /\ alertas_telegram' = alertas_telegram + 1
    /\ envios_eval' = envios_eval + 1
    /\ \E ok \in {"True", "False"} : ultimo_envio' = ok
    /\ pc' = "llamar"
    /\ UNCHANGED <<config, globales, bucle, estacion, existencia, previo, alerta,
                   resultado, llamadas_eval, llamada_vars, historial,
                   ultima_pagina, llamadas,
                   mensaje_inicial, halladas, terminacion>>

IniciarLlamada_sinEsperar ==
    /\ pc = "llamar"
    /\ llamadas' = llamadas + 1
    /\ llamadas_eval' = llamadas_eval + 1
    /\ requests_llamada' = 0
    /\ esperas_llamada' = 0
    /\ fallos_llamada' = 0
    /\ intento' = 0
    /\ resultado_llamada' = ""
    /\ pc' = "retorno"
    /\ UNCHANGED <<config, globales, bucle, estacion, existencia, previo, alerta,
                   resultado, envios_eval, ultimo_envio, historial,
                   ultima_pagina,
                   alertas_telegram, mensaje_inicial, halladas, terminacion>>

\* lines 325 / 356 and 126: the call is invoked and its loop entered
IniciarLlamada ==
    /\ pc = "llamar"
    /\ llamadas' = llamadas + 1
    /\ llamadas_eval' = llamadas_eval + 1
    /\ requests_llamada' = 0
    /\ esperas_llamada' = 0
    /\ fallos_llamada' = 0
    /\ IF CALLMEBOT_MAX_RETRIES >= 1
       THEN /\ intento' = 1
            /\ resultado_llamada' = ""
            /\ pc' = "llamada"
       ELSE \* range(1, 1) is empty: lines 158-159
            /\ intento' = 0
            /\ resultado_llamada' = "False"
            /\ pc' = "retorno"
    /\ UNCHANGED <<config, globales, bucle, estacion, existencia, previo, alerta,
                   resultado, envios_eval, ultimo_envio, historial,
                   ultima_pagina,
                   alertas_telegram, mensaje_inicial, halladas, terminacion>>

Intento_sinReturn(r) ==
    /\ pc = "llamada"
    /\ requests_llamada' = requests_llamada + 1
    /\ fallos_llamada' = IF EsExito(r) THEN fallos_llamada ELSE fallos_llamada + 1
    /\ IF intento < CALLMEBOT_MAX_RETRIES
       THEN /\ pc' = "espera"
            /\ UNCHANGED resultado_llamada
       ELSE /\ resultado_llamada' = "False"
            /\ pc' = "retorno"
    /\ UNCHANGED <<config, globales, bucle, locales, intento, esperas_llamada,
                   contadores, halladas, terminacion>>

Intento_esperaUltimo(r) ==
    /\ pc = "llamada"
    /\ requests_llamada' = requests_llamada + 1
    /\ IF EsExito(r)
       THEN /\ resultado_llamada' = "True"
            /\ pc' = "retorno"
            /\ UNCHANGED fallos_llamada
       ELSE /\ fallos_llamada' = fallos_llamada + 1
            /\ IF intento <= CALLMEBOT_MAX_RETRIES
               THEN /\ pc' = "espera"
                    /\ UNCHANGED resultado_llamada
               ELSE /\ resultado_llamada' = "False"
                    /\ pc' = "retorno"
    /\ UNCHANGED <<config, globales, bucle, locales, intento, esperas_llamada,
                   contadores, halladas, terminacion>>

\* lines 127-156 for one outcome r of requests.get
Intento(r) ==
    /\ pc = "llamada"
    /\ requests_llamada' = requests_llamada + 1
    /\ IF EsExito(r)
       THEN \* line 136
            /\ resultado_llamada' = "True"
            /\ pc' = "retorno"
            /\ UNCHANGED fallos_llamada
       ELSE /\ fallos_llamada' = fallos_llamada + 1
            /\ IF intento < CALLMEBOT_MAX_RETRIES
               THEN \* lines 146, 151, 155
                    /\ pc' = "espera"
                    /\ UNCHANGED resultado_llamada
               ELSE \* lines 158-159
                    /\ resultado_llamada' = "False"
                    /\ pc' = "retorno"
    /\ UNCHANGED <<config, globales, bucle, locales, intento, esperas_llamada,
                   contadores, halladas, terminacion>>

IntentoLlamada ==
    \E r \in Respuestas :
        Intento(r) /\ UNCHANGED <<historial, ultima_pagina>>

\* lines 147 / 152 / 156: the wait, then the next iteration of the for loop
EsperaReintento ==
    /\ pc = "espera"
    /\ esperas_llamada' = esperas_llamada + 1
    /\ intento' = intento + 1
    /\ pc' = "llamada"
    /\ UNCHANGED <<config, globales, bucle, locales, requests_llamada,
                   fallos_llamada, resultado_llamada, historial, ultima_pagina,
                   contadores,
                   halladas, terminacion>>

Retornar_sinBajarBandera ==
    /\ pc = "retorno"
    /\ SinLocales
    /\ SinLlamada
    /\ IF i < Len(nombres_surtidores)
       THEN /\ i' = i + 1
            /\ pc' = "extraer"
            /\ UNCHANGED <<pasadas, es_primera_ejecucion>>
       ELSE /\ i' = 0
            /\ pasadas' = pasadas + 1
            /\ es_primera_ejecucion' = es_primera_ejecucion
            /\ pc' = "sleep"
    /\ UNCHANGED <<config, ultimo_estado, enviar_alertas, historial,
                   ultima_pagina, contadores,
                   halladas, terminacion>>

Retornar_bloqueaSiLlamadaFalla ==
    /\ pc = "retorno"
    /\ resultado_llamada # "False"
    /\ SinLocales
    /\ SinLlamada
    /\ IF i < Len(nombres_surtidores)
       THEN /\ i' = i + 1
            /\ pc' = "extraer"
            /\ UNCHANGED <<pasadas, es_primera_ejecucion>>
       ELSE /\ i' = 0
            /\ pasadas' = pasadas + 1
            /\ es_primera_ejecucion' =
                   IF enviar_alertas THEN es_primera_ejecucion ELSE FALSE
            /\ pc' = "sleep"
    /\ UNCHANGED <<config, ultimo_estado, enviar_alertas, historial,
                   ultima_pagina, contadores,
                   halladas, terminacion>>

Retornar_abandonaPase ==
    /\ pc = "retorno"
    /\ SinLocales
    /\ SinLlamada
    /\ IF i < Len(nombres_surtidores) /\ estacion # <<>>
       THEN /\ i' = i + 1
            /\ pc' = "extraer"
            /\ UNCHANGED <<pasadas, es_primera_ejecucion>>
       ELSE /\ i' = 0
            /\ pasadas' = pasadas + 1
            /\ es_primera_ejecucion' =
                   IF enviar_alertas THEN es_primera_ejecucion ELSE FALSE
            /\ pc' = "sleep"
    /\ UNCHANGED <<config, ultimo_estado, enviar_alertas, historial,
                   ultima_pagina, contadores,
                   halladas, terminacion>>

\* verificar_surtidor returns; the for loop (409 / 424) advances; after the
\* initial pass line 413 clears the flag
Retornar ==
    /\ pc = "retorno"
    /\ SinLocales
    /\ SinLlamada
    /\ IF i < Len(nombres_surtidores)
       THEN /\ i' = i + 1
            /\ pc' = "extraer"
            /\ UNCHANGED <<pasadas, es_primera_ejecucion>>
       ELSE /\ i' = 0
            /\ pasadas' = pasadas + 1
            /\ es_primera_ejecucion' =
                   IF enviar_alertas THEN es_primera_ejecucion ELSE FALSE
            /\ pc' = "sleep"
    /\ UNCHANGED <<config, ultimo_estado, enviar_alertas, historial,
                   ultima_pagina, contadores,
                   halladas, terminacion>>

\* line 420, then lines 424-425 start a periodic pass
Esperar ==
    /\ pc = "sleep"
    /\ pasadas < MaxPasadas
    /\ enviar_alertas' = TRUE
    /\ i' = 1
    /\ pc' = "extraer"
    /\ UNCHANGED <<config, globales, pasadas, locales, llamada_vars, historial,
                   ultima_pagina,
                   contadores, halladas, terminacion>>

Next ==
    \/ MensajeInicial
    \/ ExtraerYFiltrar
    \/ Evaluar
    \/ EnviarAlertaTelegram
    \/ IniciarLlamada
    \/ IntentoLlamada
    \/ EsperaReintento
    \/ Retornar
    \/ Esperar

Spec == Init /\ [][Next]_vars

\* The monitor when every requests call returns or raises (timeout=10 / 30 on
\* each of them), every time.sleep returns, and neither a signal nor an
\* exception ends the loop: the program keeps taking its next step.
SpecViva == Init /\ [][Next]_vars /\ WF_vars(Next)

----
\* The monitor together with what ends it: the stop signal and an exception
\* that leaves the body of the loop.

\* Line 413 has run, and the try of line 416 follows it at once: from here on
\* an exception unwinds to the handlers of lines 426-431.
DentroDelTry == ~es_primera_ejecucion

\* Steps of monitor_continuo and of the functions it calls.
PasosActivos ==
    {"inicio", "extraer", "evaluar", "telegram", "llamar", "llamada", "espera",
     "retorno", "sleep"}

\* Exceptions of class Exception that no handler below monitor_continuo
\* catches: time.sleep (line 420) rejects a negative CHECK_INTERVAL, and a
\* MemoryError can come up anywhere outside the try of verificar_surtidor.
Errores == {"ValueError", "MemoryError"}

\* str(e) of line 431
Descripcion(e) ==
    IF e = "ValueError" THEN "sleep length must be non-negative" ELSE ""

\* The frames below monitor_continuo are unwound.
Desapilar ==
    /\ SinLocales
    /\ SinLlamada
    /\ i' = 0

KeyboardInterrupt_siempreCapturado ==
    /\ pc \in PasosActivos
    /\ excepcion = ""
    /\ excepcion' = "KeyboardInterrupt"
    /\ pc_excepcion' = pc
    /\ Desapilar
    /\ pc' = "detenido"
    /\ UNCHANGED <<config, globales, enviar_alertas, pasadas, historial,
                   ultima_pagina, contadores, halladas, anuncio_detenido,
                   anuncios_error>>

KeyboardInterrupt_sinCapturar ==
    /\ pc \in PasosActivos
    /\ excepcion = ""
    /\ excepcion' = "KeyboardInterrupt"
    /\ pc_excepcion' = pc
    /\ Desapilar
    /\ pc' = "abortado"
    /\ UNCHANGED <<config, globales, enviar_alertas, pasadas, historial,
                   ultima_pagina,
                   contadores, halladas, anuncio_detenido, anuncios_error>>

\* The stop signal (SIGINT) is delivered while some step runs.  It is not an
\* Exception: the handlers of lines 99, 153, 237 and 370 let it through.  Inside
\* the try of line 416 it reaches line 426; before, it leaves monitor_continuo.
\* One signal is delivered in a run.
KeyboardInterrupt ==
    /\ pc \in PasosActivos
    /\ excepcion = ""
    /\ excepcion' = "KeyboardInterrupt"
    /\ pc_excepcion' = pc
    /\ Desapilar
    /\ pc' = IF DentroDelTry THEN "detenido" ELSE "abortado"
    /\ UNCHANGED <<config, globales, enviar_alertas, pasadas, historial,
                   ultima_pagina,
                   contadores, halladas, anuncio_detenido, anuncios_error>>

\* lines 427-428: the "MONITOREO DETENIDO" message, its result discarded, and
\* monitor_continuo returns
AnunciarDetenido ==
    /\ pc = "detenido"
    /\ anuncio_detenido' = anuncio_detenido + 1
    /\ \E ok \in {"True", "False"} : ultimo_envio' = ok
    /\ pc' = "fin"
    /\ UNCHANGED <<config, globales, bucle, estacion, existencia, previo, alerta,
                   resultado, envios_eval, llamadas_eval, llamada_vars,
                   historial, ultima_pagina,
                   contadores, halladas, excepcion, pc_excepcion, anuncios_error>>

ErrorCon_sinCapturar(e) ==
    /\ pc \in {"sleep", "extraer"}
    /\ e = "ValueError" => pc = "sleep"
    /\ excepcion = ""
    /\ excepcion' = e
    /\ pc_excepcion' = pc
    /\ Desapilar
    /\ pc' = "abortado"
    /\ UNCHANGED <<config, globales, enviar_alertas, pasadas, historial,
                   ultima_pagina,
                   contadores, halladas, anuncio_detenido, anuncios_error>>

\* An exception e of class Exception raised by line 420, or by lines 256-275 of
\* verificar_surtidor, which no try encloses.  Inside the try of line 416 it
\* reaches line 429; in the initial pass it leaves monitor_continuo.
ErrorCon(e) ==
    /\ pc \in {"sleep", "extraer"}
    /\ e = "ValueError" => pc = "sleep"
    /\ excepcion = ""
    /\ excepcion' = e
    /\ pc_excepcion' = pc
    /\ Desapilar
    /\ pc' = IF DentroDelTry THEN "error" ELSE "abortado"
    /\ UNCHANGED <<config, globales, enviar_alertas, pasadas, historial,
                   ultima_pagina,
                   contadores, halladas, anuncio_detenido, anuncios_error>>

ErrorInesperado == \E e \in Errores : ErrorCon(e)

\* lines 430-431: the "ERROR DE MONITOREO" message with str(e), its result
\* discarded, and monitor_continuo returns
AnunciarError ==
    /\ pc = "error"
    /\ anuncios_error' = Append(anuncios_error, Descripcion(excepcion))
    /\ \E ok \in {"True", "False"} : ultimo_envio' = ok
    /\ pc' = "fin"
    /\ UNCHANGED <<config, globales, bucle, estacion, existencia, previo, alerta,
                   resultado, envios_eval, llamadas_eval, llamada_vars,
                   historial, ultima_pagina,
                   contadores, halladas, excepcion, pc_excepcion,
                   anuncio_detenido>>

NextMonitor ==
    \/ Next
    \/ KeyboardInterrupt
    \/ AnunciarDetenido
    \/ ErrorInesperado
    \/ AnunciarError

SpecMonitor == Init /\ [][NextMonitor]_vars

----
\* realizar_llamada_telefonica run on its own, as the unit tests run it: the
\* module is freshly loaded and the function is called directly.  Every
\* requests.get returns or raises (timeout=30) and every sleep returns, so the
\* loop keeps stepping: weak fairness of the next-state relation.

InitLlamada ==
    /\ nombres_surtidores = <<CHACO>>
    /\ CALLMEBOT_MAX_RETRIES \in 0..MaxRetries
    /\ pc = "llamar"
    /\ InicioComun

IntentoLlamadaRegistrado ==
    \E r \in Respuestas :
        /\ Intento(r)
        /\ historial' = Append(historial, r)
        /\ UNCHANGED ultima_pagina

NextLlamada ==
    \/ IniciarLlamada
    \/ IntentoLlamadaRegistrado
    \/ EsperaReintento

SpecLlamada == InitLlamada /\ [][NextLlamada]_vars /\ WF_vars(NextLlamada)

----
\* The monitor run against a scripted data source: watch list ["CHACO"], the
\* page shows CHACO at NivelesEscenario[p] during pass p, and anything after.

NivelesEscenario == <<5000, 8000, 8000>>

MuestraNivel(pagina, nombre, nivel) ==
    \E k \in 1..Len(pagina) :
        /\ pagina[k].nombre = nombre
        /\ ~ParseoFalla(pagina[k].existencia_litros)
        /\ ParsearExistencia(pagina[k].existencia_litros) = nivel

PaginasEscenario(pasada) ==
    IF pasada > Len(NivelesEscenario) THEN Paginas
    ELSE { pagina \in Paginas :
             MuestraNivel(pagina, CHACO, NivelesEscenario[pasada]) }

InitEscenario ==
    /\ nombres_surtidores = <<CHACO>>
    /\ CALLMEBOT_MAX_RETRIES \in 0..MaxRetries
    /\ pc = "inicio"
    /\ InicioComun

ExtraerEscenario ==
    \E estaciones \in PaginasEscenario(pasadas + 1) :
        ExtraerCon(estaciones) /\ UNCHANGED ultima_pagina

NextEscenario ==
    \/ MensajeInicial
    \/ ExtraerEscenario
    \/ Evaluar
    \/ EnviarAlertaTelegram
    \/ IniciarLlamada
    \/ IntentoLlamada
    \/ EsperaReintento
    \/ Retornar
    \/ Esperar

SpecEscenario == InitEscenario /\ [][NextEscenario]_vars

----
\* The monitor run against a station that drains and is refilled: watch list
\* ["CHACO"]; CHACO shows 8000 in the initial pass and 5000 in the second; in
\* the third the page either lacks CHACO (or the fetch fails) or shows it at
\* 8000; in the fourth it shows 8000; anything after.

AUSENTE == -1

GuionDrenaje == <<{8000}, {5000}, {AUSENTE, 8000}, {8000}>>

PaginasCon(niveles) ==
    { p \in Paginas :
        \E n \in niveles :
            IF n = AUSENTE
            THEN \A k \in 1..Len(p) : p[k].nombre # CHACO
            ELSE MuestraNivel(p, CHACO, n) }

PaginasDrenaje(pasada) ==
    IF pasada > Len(GuionDrenaje) THEN Paginas
    ELSE PaginasCon(GuionDrenaje[pasada])

ExtraerDrenaje ==
    \E estaciones \in PaginasDrenaje(pasadas + 1) :
        ExtraerCon(estaciones) /\ UNCHANGED ultima_pagina

NextDrenaje ==
    \/ MensajeInicial
    \/ ExtraerDrenaje
    \/ Evaluar
    \/ EnviarAlertaTelegram
    \/ IniciarLlamada
    \/ IntentoLlamada
    \/ EsperaReintento
    \/ Retornar
    \/ Esperar

SpecDrenaje == InitEscenario /\ [][NextDrenaje]_vars

----
\* The monitor while both channels are down: every alert message comes back
\* False and no voice-call attempt is classified as success.  Watch list
\* ["CHACO"]; CHACO shows 0 in the initial pass, 8000 in the second, 8000 or
\* 5000 in the third; anything after.

GuionCanalesCaidos == <<{0}, {8000}, {8000, 5000}>>

PaginasCanalesCaidos(pasada) ==
    IF pasada > Len(GuionCanalesCaidos) THEN Paginas
    ELSE PaginasCon(GuionCanalesCaidos[pasada])

ExtraerCanalesCaidos ==
    \E estaciones \in PaginasCanalesCaidos(pasadas + 1) :
        ExtraerCon(estaciones) /\ UNCHANGED ultima_pagina

EnvioFallido == EnviarAlertaTelegram /\ ultimo_envio' = "False"

IntentoFallido ==
    \E r \in Respuestas :
        /\ ~EsExito(r)
        /\ Intento(r)
        /\ UNCHANGED <<historial, ultima_pagina>>

NextCanalesCaidos ==
    \/ MensajeInicial
    \/ ExtraerCanalesCaidos
    \/ Evaluar
    \/ EnvioFallido
    \/ IniciarLlamada
    \/ IntentoFallido
    \/ EsperaReintento
    \/ Retornar
    \/ Esperar

SpecCanalesCaidos == InitEscenario /\ [][NextCanalesCaidos]_vars

----
\* The monitor started with two fragments of one name: watch list ["O",
\* "chaco"], and CHACO is the first card of every page, so that both fragments
\* select it; within a pass both fetches show it at the same level: 0 in the
\* initial pass, then 5000, 8000 and 8000; anything after.

GuionMismaEstacion == <<0, 5000, 8000, 8000>>

PaginasMismaEstacion(pasada) ==
    IF pasada > Len(GuionMismaEstacion) THEN Paginas
    ELSE { p \in Paginas :
             /\ p # <<>>
             /\ p[1].nombre = CHACO
             /\ MuestraNivel(p, CHACO, GuionMismaEstacion[pasada]) }

InitMismaEstacion ==
    /\ nombres_surtidores = <<Fragmento_O, Fragmento_chaco>>
    /\ CALLMEBOT_MAX_RETRIES \in 0..MaxRetries
    /\ pc = "inicio"
    /\ InicioComun

ExtraerMismaEstacion ==
    \E estaciones \in PaginasMismaEstacion(pasadas + 1) :
        ExtraerCon(estaciones) /\ UNCHANGED ultima_pagina

NextMismaEstacion ==
    \/ MensajeInicial
    \/ ExtraerMismaEstacion
    \/ Evaluar
    \/ EnviarAlertaTelegram
    \/ IniciarLlamada
    \/ IntentoLlamada
    \/ EsperaReintento
    \/ Retornar
    \/ Esperar

SpecMismaEstacion == InitMismaEstacion /\ [][NextMismaEstacion]_vars

----
\* The monitor with the fetched page kept at hand, to compare what the filter
\* selected with what the page held.  CALLMEBOT_MAX_RETRIES is 0: the voice
\* call is invoked and returns at once (range(1, 1) is empty).

InitFiltro ==
    /\ nombres_surtidores \in ListasVigiladas
    /\ CALLMEBOT_MAX_RETRIES = 0
    /\ pc = "inicio"
    /\ InicioComun

ExtraerRegistrado ==
    \E estaciones \in Paginas :
        ExtraerCon(estaciones) /\ ultima_pagina' = estaciones

NextFiltro ==
    \/ MensajeInicial
    \/ ExtraerRegistrado
    \/ Evaluar
    \/ EnviarAlertaTelegram
    \/ IniciarLlamada
    \/ Retornar
    \/ Esperar

SpecFiltro == InitFiltro /\ [][NextFiltro]_vars

----
\* Vocabulary of the properties.

\* The locals of a verificar_surtidor call that parsed the matched record.
Evaluada == existencia >= 0

\* The exact name of the matched record.
Clave == estacion[1].nombre

\* A periodic pass: line 413 has run and the call passes enviar_alertas=True.
FueraDePrimerCiclo == ~es_primera_ejecucion /\ enviar_alertas

\* No alert message was sent and no voice call made by the running evaluation.
SinNotificar ==
    /\ ~alerta
    /\ pc = "retorno"
    /\ envios_eval = 0
    /\ llamadas_eval = 0
    /\ intento = 0
    /\ requests_llamada = 0

\* The running evaluation alerts: one send, then one call invocation.
Notifica ==
    /\ alerta
    /\ pc \in {"telegram", "llamar", "llamada", "espera", "retorno"}
    /\ (pc = "telegram" => envios_eval = 0 /\ llamadas_eval = 0)
    /\ (pc = "llamar" => envios_eval = 1 /\ llamadas_eval = 0)
    /\ (pc \in {"llamada", "espera", "retorno"} =>
           envios_eval = 1 /\ llamadas_eval = 1)

PrevioDisponible == previo # <<>> /\ previo[1].disponible
PrevioNoDisponible == previo # <<>> /\ ~previo[1].disponible

----
\* C1: an evaluation whose matched record has level 0 marks the station as
\* not available (entry and return value) and sends no alert message and
\* makes no voice call, whatever entry the station had before.
C1_NivelCeroNuncaAlerta ==
    existencia = 0 =>
        /\ SinNotificar
        /\ resultado = FALSE
        /\ Clave \in DOMAIN ultimo_estado
        /\ ultimo_estado[Clave] = [disponible |-> FALSE, saldo |-> 0]

\* A periodic pass finds at level 0 a station whose entry said available.
C1_Testigo ==
    /\ existencia = 0
    /\ FueraDePrimerCiclo
    /\ PrevioDisponible
    /\ pc = "retorno"

\* C2: during the initial pass (no pass completed yet) the flag is set, no
\* alert message is sent and no voice call is made, even for a record with
\* level > 0; an evaluation only records the observation in the tracker.
C2_PrimerCicloSinAlertas ==
    pasadas = 0 =>
        /\ es_primera_ejecucion
        /\ alertas_telegram = 0
        /\ llamadas = 0
        /\ pc \in {"inicio", "extraer", "evaluar", "retorno"}
        /\ (Evaluada =>
               /\ SinNotificar
               /\ Clave \in DOMAIN ultimo_estado
               /\ ultimo_estado[Clave] =
                      [disponible |-> existencia > 0, saldo |-> existencia])

\* The initial pass has evaluated a station that has fuel.
C2_Testigo ==
    /\ pasadas = 0
    /\ pc = "retorno"
    /\ Evaluada
    /\ existencia > 0
    /\ resultado = TRUE

\* C3: in a periodic pass, an evaluation of a station whose entry said
\* available with level L and which observes a level greater than L alerts:
\* one alert message and one voice-call invocation.
C3_AumentoAlerta ==
    (Evaluada /\ FueraDePrimerCiclo /\ PrevioDisponible
       /\ existencia > previo[1].saldo) => Notifica

\* Such an evaluation has returned after its send and its call.
C3_Testigo ==
    /\ Evaluada
    /\ FueraDePrimerCiclo
    /\ PrevioDisponible
    /\ existencia > previo[1].saldo
    /\ pc = "retorno"
    /\ envios_eval = 1
    /\ llamadas_eval = 1

\* C4: an evaluation of a station whose entry said available with level L
\* and which observes a level equal to or lower than L sends no alert message
\* and makes no voice call, in any pass.
C4_IgualOMenorNoAlerta ==
    (Evaluada /\ PrevioDisponible /\ existencia <= previo[1].saldo)
        => SinNotificar

\* A periodic pass finds the station still with fuel, at the same level.
C4_Testigo ==
    /\ Evaluada
    /\ FueraDePrimerCiclo
    /\ PrevioDisponible
    /\ existencia = previo[1].saldo
    /\ pc = "retorno"
    /\ pasadas >= 2

\* C5: in a periodic pass, an evaluation of a station whose entry said not
\* available and which observes a level > 0 alerts, whatever level the entry
\* stored.
C5_VuelveADisponibleAlerta ==
    (Evaluada /\ FueraDePrimerCiclo /\ PrevioNoDisponible /\ existencia > 0)
        => Notifica

\* Such an evaluation has returned after its send and its call.
C5_Testigo ==
    /\ Evaluada
    /\ FueraDePrimerCiclo
    /\ PrevioNoDisponible
    /\ existencia > 0
    /\ pc = "retorno"
    /\ envios_eval = 1
    /\ llamadas_eval = 1

----
\* The voice call on its own (SpecLlamada).

\* The first attempt classified as success, 0 if there is none so far.
PrimerExito ==
    IF \E k \in 1..Len(historial) : EsExito(historial[k])
    THEN CHOOSE k \in 1..Len(historial) :
            /\ EsExito(historial[k])
            /\ \A j \in 1..(k - 1) : ~EsExito(historial[j])
    ELSE 0

BUSY_200 == [tipo |-> "respuesta", status_code |-> 200,
             text |-> <<"L","i","n","e"," ","b","u","s","y">>]
QUEUED_200 == [tipo |-> "respuesta", status_code |-> 200,
               text |-> <<"C","a","l","l"," ","Q","u","e","u","e","d">>]
ERROR_500 == [tipo |-> "respuesta", status_code |-> 500,
              text |-> <<"e","r","r","o","r">>]
TIMEOUT == [tipo |-> "timeout", status_code |-> 0, text |-> <<>>]
EXCEPCION == [tipo |-> "excepcion", status_code |-> 0, text |-> <<>>]

\* C6: with max_retries >= 1, once attempt k is the first one classified as
\* success (all earlier ones failed), the call has returned success after
\* exactly k requests and k-1 waits, and no request follows the success.
C6_ExitoEnIntentoK ==
    (CALLMEBOT_MAX_RETRIES >= 1 /\ PrimerExito > 0) =>
        /\ pc = "retorno"
        /\ resultado_llamada = "True"
        /\ PrimerExito <= CALLMEBOT_MAX_RETRIES
        /\ Len(historial) = PrimerExito
        /\ requests_llamada = PrimerExito
        /\ esperas_llamada = PrimerExito - 1
        /\ fallos_llamada = PrimerExito - 1

\* [busy, busy, success] with max_retries = 3: success after two waits.
C6_Testigo ==
    /\ CALLMEBOT_MAX_RETRIES = 3
    /\ historial = <<BUSY_200, BUSY_200, QUEUED_200>>
    /\ pc = "retorno"
    /\ resultado_llamada = "True"
    /\ requests_llamada = 3
    /\ esperas_llamada = 2

C7_Cotas ==
    CALLMEBOT_MAX_RETRIES >= 1 =>
        /\ requests_llamada <= CALLMEBOT_MAX_RETRIES
        /\ esperas_llamada <= CALLMEBOT_MAX_RETRIES - 1
        /\ (pc = "espera" => intento < CALLMEBOT_MAX_RETRIES)
        /\ (pc = "retorno" => esperas_llamada < requests_llamada)
        /\ ((pc = "retorno" /\ PrimerExito = 0) =>
               /\ resultado_llamada = "False"
               /\ requests_llamada = CALLMEBOT_MAX_RETRIES
               /\ esperas_llamada = CALLMEBOT_MAX_RETRIES - 1
               /\ Len(historial) = CALLMEBOT_MAX_RETRIES)

\* C7: with max_retries >= 1 and no outcome classified as success, whatever
\* the mix of failures, the call terminates and returns failure after exactly
\* max_retries requests and max_retries - 1 waits; it never waits after the
\* final attempt and never makes more than max_retries requests.
C7_AgotaReintentos == []C7_Cotas /\ <>(pc = "retorno")

\* Three failures of different kinds with max_retries = 3: failure, two waits.
C7_Testigo ==
    /\ CALLMEBOT_MAX_RETRIES = 3
    /\ historial = <<TIMEOUT, ERROR_500, EXCEPCION>>
    /\ pc = "retorno"
    /\ resultado_llamada = "False"
    /\ requests_llamada = 3
    /\ esperas_llamada = 2

----
\* The scripted run (SpecEscenario).

\* C8: watch list ["CHACO"]; pass 1 observes 5000: no alert, and the entry is
\* {available, 5000}; pass 2 observes 8000: exactly one alert message and one
\* voice-call invocation; pass 3 observes 8000 again: no further send or call.
C8_EscenarioChaco ==
    /\ (pasadas = 0 => alertas_telegram = 0 /\ llamadas = 0)
    /\ ((pasadas = 1 /\ pc = "sleep") =>
           /\ alertas_telegram = 0
           /\ llamadas = 0
           /\ DOMAIN ultimo_estado = {CHACO}
           /\ ultimo_estado[CHACO] = [disponible |-> TRUE, saldo |-> 5000])
    /\ (pasadas = 2 => alertas_telegram = 1 /\ llamadas = 1)
    /\ ((pasadas = 3 /\ pc = "sleep") =>
           alertas_telegram = 1 /\ llamadas = 1)

\* The third pass is over.
C8_Testigo ==
    /\ pasadas = 3
    /\ pc = "sleep"
    /\ alertas_telegram = 1
    /\ llamadas = 1
    /\ ultimo_estado[CHACO] = [disponible |-> TRUE, saldo |-> 8000]

----
\* C9: an evaluation whose fetch is empty or matches no record leaves the
\* whole tracker unchanged and sends nothing, from the fetch to the return,
\* and the loop goes on with the next station or the next pass.
C9_SinDatosNoCambiaNada ==
    [][ /\ ((pc = "extraer" /\ pc' = "retorno") =>
              /\ estacion' = <<>>
              /\ resultado' = FALSE
              /\ UNCHANGED <<ultimo_estado, alertas_telegram, llamadas,
                             envios_eval, llamadas_eval, requests_llamada>>)
        /\ ((pc = "retorno" /\ estacion = <<>>) =>
              /\ UNCHANGED <<ultimo_estado, alertas_telegram, llamadas>>
              /\ envios_eval = 0
              /\ llamadas_eval = 0
              /\ IF i < Len(nombres_surtidores)
                 THEN pc' = "extraer" /\ i' = i + 1
                 ELSE pc' = "sleep" /\ pasadas' = pasadas + 1)
      ]_vars

\* A watched station that has an entry is missing from the page.
C9_Testigo ==
    /\ pc = "retorno"
    /\ estacion = <<>>
    /\ nombres_surtidores[i] \in DOMAIN ultimo_estado
    /\ ultimo_estado[nombres_surtidores[i]].disponible
    /\ FueraDePrimerCiclo

\* C10: the tracker holds an entry for a name only if the filter selected a
\* record of that name in an earlier fetch, and no step removes an entry.
C10_EntradasSoloCrecen ==
    /\ [](DOMAIN ultimo_estado \subseteq halladas)
    /\ [][DOMAIN ultimo_estado \subseteq DOMAIN ultimo_estado']_vars

\* Both stations have entries and the watched one is missing from the page.
C10_Testigo ==
    /\ DOMAIN ultimo_estado = {CHACO, FORMOSA}
    /\ pc = "retorno"
    /\ estacion = <<>>
    /\ pasadas >= 2

----
\* The end of a run.

\* C11: a stop signal observed inside the polling loop leads to line 426 and
\* nowhere else; from there the only step sends one "monitoring stopped"
\* message and ends the run, whatever the send returns; after the signal no
\* step fetches, evaluates, alerts or calls, and nothing follows the end.
C11_TrasSenal ==
    excepcion = "KeyboardInterrupt" =>
        /\ pc \in {"detenido", "fin", "abortado"}
        /\ pc = "detenido" => anuncio_detenido = 0
        /\ pc = "fin" => anuncio_detenido = 1
        /\ anuncios_error = <<>>
        /\ estacion = <<>> /\ intento = 0

C11_PasoTrasSenal ==
    /\ (excepcion = "" /\ excepcion' = "KeyboardInterrupt" /\ DentroDelTry)
           => pc' = "detenido"
    /\ pc = "detenido"
           => /\ pc' = "fin"
              /\ anuncio_detenido' = anuncio_detenido + 1
    /\ excepcion = "KeyboardInterrupt"
           => UNCHANGED <<ultimo_estado, halladas, alertas_telegram, llamadas,
                          mensaje_inicial, pasadas, llamada_vars>>
    /\ pc # "fin"

C11_SenalDetiene == []C11_TrasSenal /\ [][C11_PasoTrasSenal]_vars

\* The signal came during the sleep between two passes, the announcement was
\* attempted and its send failed, and the run has ended.
C11_Testigo ==
    /\ pc = "fin"
    /\ excepcion = "KeyboardInterrupt"
    /\ pc_excepcion = "sleep"
    /\ pasadas >= 2
    /\ anuncio_detenido = 1
    /\ ultimo_envio = "False"

\* C12: an exception of class Exception that leaves the loop body inside the
\* polling loop leads to line 429 and nowhere else; from there the only step
\* sends one "monitoring failed" message holding str(e) and ends the run;
\* after the exception no step fetches, evaluates, alerts or calls; a run never
\* sends both the "stopped" and the "failed" message.
C12_TrasError ==
    /\ anuncio_detenido + Len(anuncios_error) <= 1
    /\ excepcion \in Errores =>
           /\ pc \in {"error", "fin", "abortado"}
           /\ pc \in {"error", "abortado"} => anuncios_error = <<>>
           /\ pc = "fin" => Len(anuncios_error) = 1
           /\ (pc = "fin" /\ excepcion = "ValueError")
                  => anuncios_error = <<"sleep length must be non-negative">>
           /\ anuncio_detenido = 0
           /\ estacion = <<>> /\ intento = 0

C12_PasoTrasError ==
    /\ (excepcion = "" /\ excepcion' \in Errores /\ DentroDelTry)
           => pc' = "error"
    /\ pc = "error"
           => /\ pc' = "fin"
              /\ Len(anuncios_error') = Len(anuncios_error) + 1
              /\ anuncio_detenido' = anuncio_detenido
    /\ excepcion \in Errores
           => UNCHANGED <<ultimo_estado, halladas, alertas_telegram, llamadas,
                          mensaje_inicial, pasadas, llamada_vars, excepcion>>

C12_ErrorFalla == []C12_TrasError /\ [][C12_PasoTrasError]_vars

\* time.sleep raised in a periodic round, the failure announcement with its text
\* was attempted, and the run has ended.
C12_Testigo ==
    /\ pc = "fin"
    /\ excepcion = "ValueError"
    /\ pc_excepcion = "sleep"
    /\ pasadas >= 2
    /\ anuncios_error = <<"sleep length must be non-negative">>
    /\ anuncio_detenido = 0

\* The state of the monitor, read off the position in monitor_continuo: line
\* 405, the loop of lines 409-410 (calls with enviar_alertas=False), the loop
\* of lines 417-425 (the sleep and the calls with enviar_alertas=True), the two
\* handlers, and the end of the run.
PasosDeVerificar ==
    {"extraer", "evaluar", "telegram", "llamar", "llamada", "espera", "retorno"}

Fase ==
    IF pc = "inicio" THEN "STARTING"
    ELSE IF pc = "detenido" THEN "STOPPING"
    ELSE IF pc = "error" THEN "FAILED"
    ELSE IF pc \in {"fin", "abortado"} THEN "TERMINATED"
    ELSE IF pc = "sleep" \/ enviar_alertas THEN "STEADY_POLLING"
    ELSE "FIRST_CYCLE"

OrdenDeFases ==
    { <<"STARTING", "FIRST_CYCLE">>, <<"FIRST_CYCLE", "STEADY_POLLING">>,
      <<"STEADY_POLLING", "STOPPING">>, <<"STEADY_POLLING", "FAILED">>,
      <<"STOPPING", "TERMINATED">>, <<"FAILED", "TERMINATED">>,
      <<"STARTING", "TERMINATED">>, <<"FIRST_CYCLE", "TERMINATED">> }

\* C13: the state only moves along STARTING, FIRST_CYCLE, STEADY_POLLING, then
\* STOPPING or FAILED, then the end (a run cut short before the polling loop
\* ends from STARTING or FIRST_CYCLE); the start announcement has been
\* attempted exactly once in every state after STARTING (not at all in a run
\* the signal ended in STARTING), nothing is fetched before, and STARTING is left
\* for FIRST_CYCLE whatever the send returned; es_primera_ejecucion is true at
\* every step of a first-cycle evaluation and false at every step of a
\* steady-polling evaluation, and once false it stays false.
C13_EnFase ==
    /\ mensaje_inicial = (IF pc_excepcion = "inicio" \/ pc = "inicio" THEN 0 ELSE 1)
    /\ pc = "inicio" => halladas = {} /\ ultimo_estado = << >> /\ pasadas = 0
    /\ (Fase = "FIRST_CYCLE" /\ pc \in PasosDeVerificar) => es_primera_ejecucion
    /\ (Fase = "STEADY_POLLING" /\ pc \in PasosDeVerificar)
           => ~es_primera_ejecucion

C13_PasoDeFase ==
    /\ Fase' # Fase => <<Fase, Fase'>> \in OrdenDeFases
    /\ (pc = "inicio" /\ excepcion' = "")
           => /\ Fase' = "FIRST_CYCLE"
              /\ ultimo_envio' \in {"True", "False"}
    /\ ~es_primera_ejecucion => ~es_primera_ejecucion'

C13_OrdenDeEstados == []C13_EnFase /\ [][C13_PasoDeFase]_vars

\* The start announcement failed and the first cycle is about to fetch for
\* its first station.
C13_Testigo ==
    /\ Fase = "FIRST_CYCLE"
    /\ pc = "extraer"
    /\ i = 1
    /\ mensaje_inicial = 1
    /\ ultimo_envio = "False"
    /\ es_primera_ejecucion

\* C14: when every external call and every sleep returns and nothing ends the
\* loop, the run completes every one of its MaxPasadas passes and rests in the
\* sleep that follows the last one; a pass is completed only by the return of
\* the call for the last station of the watch list, and the stations are
\* taken one after the other, so every station is handled in every pass; the
\* step after a voice call that ran out of attempts is the next station's
\* fetch or the sleep, and the run goes on to its last pass all the same.
C14_PasoDeCiclo ==
    /\ pasadas' # pasadas
           => /\ pasadas' = pasadas + 1
              /\ pc = "retorno"
              /\ i = Len(nombres_surtidores)
    /\ i' # i
           => \/ i' = i + 1 /\ pc = "retorno" /\ pc' = "extraer"
              \/ i' = 1 /\ pc \in {"inicio", "sleep"} /\ pc' = "extraer"
              \/ i' = 0 /\ i = Len(nombres_surtidores) /\ pc' = "sleep"
    /\ pc' = "evaluar" => pc = "extraer"
    /\ resultado_llamada = "False"
           => /\ pc = "retorno"
              /\ pc' = (IF i < Len(nombres_surtidores) THEN "extraer" ELSE "sleep")

C14_CicloSigue ==
    /\ <>[](pc = "sleep" /\ pasadas = MaxPasadas)
    /\ [][C14_PasoDeCiclo]_vars

\* In a periodic pass a voice call has used up all of its several attempts.
C14_Testigo ==
    /\ pc = "retorno"
    /\ enviar_alertas
    /\ pasadas >= 2
    /\ resultado_llamada = "False"
    /\ CALLMEBOT_MAX_RETRIES >= 2
    /\ fallos_llamada = CALLMEBOT_MAX_RETRIES

----
\* The tracker and the notifications.

\* C15: an evaluation of a station that had no entry records the observation
\* as its entry, and alerts (one message, one call invocation) exactly when the
\* observed level is above 0 and the pass is a periodic one; otherwise it
\* sends nothing and calls nobody.
C15_PrimeraObservacion ==
    (Evaluada /\ previo = <<>>) =>
        /\ Clave \in DOMAIN ultimo_estado
        /\ ultimo_estado[Clave] =
               [disponible |-> existencia > 0, saldo |-> existencia]
        /\ alerta <=> (existencia > 0 /\ FueraDePrimerCiclo)
        /\ IF alerta THEN Notifica ELSE SinNotificar

\* A station gets its first entry in a periodic pass later than the second,
\* with fuel, and its evaluation has sent the message and invoked the call.
C15_Testigo ==
    /\ Evaluada
    /\ previo = <<>>
    /\ existencia > 0
    /\ FueraDePrimerCiclo
    /\ pasadas >= 2
    /\ pc = "retorno"
    /\ envios_eval = 1
    /\ llamadas_eval = 1

\* The level the data model gives a display string: the digits that are left
\* once separators and other characters are dropped, and 0 for a string that
\* yields no number.
NivelObservado(s) == IF ParseoFalla(s) THEN 0 ELSE ParsearExistencia(s)

\* C16: once an evaluation that found the station has returned, the entry of
\* the matched record's name holds the level just observed and available =
\* (level > 0); and every entry of the tracker has available = (level > 0).
C16_EntradaIgualObservacion ==
    /\ \A k \in DOMAIN ultimo_estado :
           ultimo_estado[k].disponible = (ultimo_estado[k].saldo > 0)
    /\ (pc = "retorno" /\ estacion # <<>>) =>
           /\ Clave \in DOMAIN ultimo_estado
           /\ ultimo_estado[Clave] =
                  [disponible |-> NivelObservado(estacion[1].existencia_litros) > 0,
                   saldo |-> NivelObservado(estacion[1].existencia_litros)]

\* An evaluation found the station, float() rejected the digits of its level,
\* and the call returned with the entry still saying available.
C16_Testigo ==
    /\ pc = "retorno"
    /\ estacion # <<>>
    /\ ParseoFalla(estacion[1].existencia_litros)
    /\ Clave \in DOMAIN ultimo_estado
    /\ ultimo_estado[Clave].disponible

\* C17: an evaluation sends at most one alert message and invokes the voice
\* call at most once, the call only after the message; one that decides to
\* alert does both, the call whatever the send returned, and one that does not
\* does neither; over the run the alert messages sent and the call
\* invocations are equal in number, but for a send whose call is about to start.
C17_EnEvaluacion ==
    /\ envios_eval \in 0..1
    /\ llamadas_eval \in 0..envios_eval
    /\ alerta => Notifica
    /\ ~alerta => (envios_eval = 0 /\ llamadas_eval = 0)
    /\ (alerta /\ pc = "retorno") => (envios_eval = 1 /\ llamadas_eval = 1)
    /\ alertas_telegram = llamadas + (IF pc = "llamar" THEN 1 ELSE 0)

C17_PasoDeAlerta ==
    /\ pc = "telegram"
           => /\ pc' = "llamar"
              /\ envios_eval' = envios_eval + 1
              /\ alertas_telegram' = alertas_telegram + 1
              /\ llamadas' = llamadas
    /\ pc = "llamar"
           => /\ llamadas_eval' = llamadas_eval + 1
              /\ llamadas' = llamadas + 1
              /\ alertas_telegram' = alertas_telegram
    /\ pc \notin {"telegram", "llamar"}
           => UNCHANGED <<alertas_telegram, llamadas>>

C17_UnEnvioUnaLlamada == []C17_EnEvaluacion /\ [][C17_PasoDeAlerta]_vars

\* The second station of the watch list alerts in the pass in which the first
\* one alerted: its send failed, its call was invoked all the same, and the
\* run counts two messages and two calls.
C17_Testigo ==
    /\ pc = "retorno"
    /\ i = 2
    /\ pasadas = 1
    /\ alerta
    /\ ultimo_envio = "False"
    /\ llamadas_eval = 1
    /\ alertas_telegram = 2
    /\ llamadas = 2

\* The running call of verificar_surtidor has met a failure: no data or no
\* matching record, an exception while evaluating the record, an alert message
\* that was not delivered, or a voice call that used up its attempts.
FalloDeEstacion ==
    /\ pc \in {"llamar", "llamada", "espera", "retorno"}
    /\ \/ pc = "retorno" /\ estacion = <<>>
       \/ pc = "retorno" /\ estacion # <<>> /\ ~Evaluada
       \/ ultimo_envio = "False"
       \/ resultado_llamada = "False"

\* C18: a failure met while handling a station never leads to the handler of
\* line 429, and unless the stop signal arrives the call goes on and returns
\* to the loop, which fetches for the next station of the watch list or, after
\* the last one, ends the pass; the run reaches FAILED only from an exception
\* raised by the sleep or outside the try of verificar_surtidor.
C18_SinFallaFatal ==
    /\ pc = "error" => pc_excepcion \in {"sleep", "extraer"}
    /\ FalloDeEstacion => pc # "error"

C18_PasoTrasFallo ==
    FalloDeEstacion =>
        /\ pc' # "error"
        /\ excepcion' \notin Errores
        /\ excepcion' = "" =>
               /\ pc = "llamar" => pc' \in {"llamada", "retorno"}
               /\ pc \in {"llamada", "espera"}
                      => pc' \in {"llamada", "espera", "retorno"}
               /\ (pc = "retorno" /\ i < Len(nombres_surtidores))
                      => (pc' = "extraer" /\ i' = i + 1 /\ pasadas' = pasadas)
               /\ (pc = "retorno" /\ i = Len(nombres_surtidores))
                      => (pc' = "sleep" /\ pasadas' = pasadas + 1)

C18_FalloNoBloquea == []C18_SinFallaFatal /\ [][C18_PasoTrasFallo]_vars

\* In a periodic pass the first station of a list of two came back with no
\* record, and the record of the second one is being evaluated.
C18_Testigo ==
    /\ Len(nombres_surtidores) = 2
    /\ i = 2
    /\ pc = "evaluar"
    /\ pasadas = 1
    /\ ultimo_estado = << >>
    /\ excepcion = ""

----
\* The classification of a voice-call attempt.

\* The outcomes that are a response of status 200 whose body holds "queued"
\* or "success" in some letter case.
SUCCESS_BUSY_200 == [tipo |-> "respuesta", status_code |-> 200,
                     text |-> <<"s","u","c","c","e","s","s"," ","b","u","s","y">>]
QUEUED_500 == [tipo |-> "respuesta", status_code |-> 500,
               text |-> <<"C","a","l","l"," ","Q","u","e","u","e","d">>]
ExitosEsperados == {QUEUED_200, SUCCESS_BUSY_200}

UltimaRespuesta == historial[Len(historial)]

\* C19: the call returns success at an attempt exactly when the outcome of
\* that attempt is a response of status 200 whose body holds "queued" or
\* "success" in any letter case, "busy" in the same body notwithstanding;
\* after any other outcome (busy, another body, a status other than 200
\* whatever the body, a timeout, an exception) the call waits and goes to the
\* next attempt if one remains, and returns failure if none does.
C19_Clasificacion ==
    historial # <<>> =>
        /\ Len(historial) = requests_llamada
        /\ UltimaRespuesta \in ExitosEsperados
               => (pc = "retorno" /\ resultado_llamada = "True")
        /\ UltimaRespuesta \notin ExitosEsperados
               => IF Len(historial) < CALLMEBOT_MAX_RETRIES
                  THEN /\ resultado_llamada = ""
                       /\ \/ /\ pc = "espera"
                             /\ intento = Len(historial)
                             /\ esperas_llamada = Len(historial) - 1
                          \/ /\ pc = "llamada"
                             /\ intento = Len(historial) + 1
                             /\ esperas_llamada = Len(historial)
                  ELSE /\ pc = "retorno"
                       /\ resultado_llamada = "False"
                       /\ esperas_llamada = Len(historial) - 1

\* A 500 response whose body says "Call Queued" was retried, and the next
\* attempt, a 200 response saying "success busy", ended the call with success.
C19_Testigo ==
    /\ Len(historial) = 2
    /\ historial[1] = QUEUED_500
    /\ historial[2] = SUCCESS_BUSY_200
    /\ resultado_llamada = "True"
    /\ esperas_llamada = 1

----
\* The order of the stations within a pass.

\* Nothing of a call of verificar_surtidor is in progress.
SinEvaluacionEnCurso ==
    /\ estacion = <<>>
    /\ existencia = -1
    /\ ~alerta
    /\ envios_eval = 0
    /\ llamadas_eval = 0
    /\ intento = 0
    /\ requests_llamada = 0
    /\ esperas_llamada = 0
    /\ resultado_llamada = ""

\* C20: a fetch starts with nothing of an earlier station in progress; the
\* record in hand is always one that matches the watch-list item the loop is
\* at; a call that returns after deciding to alert has sent its message and
\* its voice call has returned, a failed one after all its attempts and the
\* waits between them; and the loop index moves only from one item to the
\* next at the return of a call, from the first item at the start of a pass.
C20_UnaEstacionALaVez ==
    /\ pc \in PasosDeVerificar => i \in 1..Len(nombres_surtidores)
    /\ pc = "extraer" => SinEvaluacionEnCurso
    /\ estacion # <<>>
           => Contiene(Upper(nombres_surtidores[i]), Upper(Clave))
    /\ (pc = "retorno" /\ alerta)
           => /\ envios_eval = 1
              /\ llamadas_eval = 1
              /\ resultado_llamada \in {"True", "False"}
    /\ (pc = "retorno" /\ resultado_llamada = "False"
          /\ CALLMEBOT_MAX_RETRIES >= 1)
           => /\ requests_llamada = CALLMEBOT_MAX_RETRIES
              /\ esperas_llamada = CALLMEBOT_MAX_RETRIES - 1

C20_PasoDeEstacion ==
    /\ (pc' = "extraer" /\ pc # "extraer")
           => \/ pc = "retorno" /\ i' = i + 1
              \/ pc \in {"inicio", "sleep"} /\ i' = 1
    /\ (i' # i /\ pc' # "extraer")
           => (pc = "retorno" /\ i = Len(nombres_surtidores) /\ pc' = "sleep")
    /\ pc \in {"evaluar", "telegram", "llamar", "llamada", "espera"}
           => (i' = i /\ estacion' = estacion)

C20_EnOrden == []C20_UnaEstacionALaVez /\ [][C20_PasoDeEstacion]_vars

\* The first of two stations alerted and its voice call failed at each of its
\* three attempts, with the two waits between them; its call is returning.
C20_Testigo ==
    /\ Len(nombres_surtidores) = 2
    /\ i = 1
    /\ pc = "retorno"
    /\ alerta
    /\ resultado_llamada = "False"
    /\ requests_llamada = 3
    /\ esperas_llamada = 2

----
\* The filter and the key of the tracker.

\* The fragments of the watch lists and the station names each of them is a
\* substring of when letter case is ignored.
CoincidenciasEsperadas ==
    { <<CHACO, CHACO>>, <<FORMOSA, FORMOSA>>, <<Fragmento_chaco, CHACO>>,
      <<Fragmento_O, CHACO>>, <<Fragmento_O, FORMOSA>> }

CoincideEn(k) ==
    <<nombres_surtidores[i], ultima_pagina[k].nombre>> \in CoincidenciasEsperadas

\* C21: the record in hand is the first one of the fetched page whose name
\* holds the fragment as a substring, letter case ignored, whatever matching
\* records follow it, and no record is in hand when none matches; the
\* evaluation reads and writes the entry under the exact name of that record,
\* and the tracker never holds an entry under anything but an exact name.
C21_EnMano ==
    /\ DOMAIN ultimo_estado \subseteq Nombres
    /\ (pc \in {"evaluar", "telegram", "llamar", "retorno"} /\ estacion # <<>>)
           => \E k \in 1..Len(ultima_pagina) :
                  /\ estacion[1] = ultima_pagina[k]
                  /\ CoincideEn(k)
                  /\ \A j \in 1..(k - 1) : ~CoincideEn(j)
    /\ (pc = "retorno" /\ estacion = <<>>)
           => \A k \in 1..Len(ultima_pagina) : ~CoincideEn(k)
    /\ Evaluada => Clave \in DOMAIN ultimo_estado

C21_PasoDeClave ==
    pc = "evaluar" =>
        /\ previo' = IF existencia' >= 0 /\ Clave \in DOMAIN ultimo_estado
                     THEN <<ultimo_estado[Clave]>>
                     ELSE <<>>
        /\ \A k \in DOMAIN ultimo_estado' \ {Clave} :
               k \in DOMAIN ultimo_estado /\ ultimo_estado'[k] = ultimo_estado[k]

C21_PrimeraCoincidencia == []C21_EnMano /\ [][C21_PasoDeClave]_vars

\* The fragment "O" met a page whose two records both match it: the first one,
\* FORMOSA, was evaluated and has its entry, CHACO has none.
C21_Testigo ==
    /\ nombres_surtidores[1] = Fragmento_O
    /\ i = 1
    /\ pc = "retorno"
    /\ Len(ultima_pagina) = 2
    /\ ultima_pagina[1].nombre = FORMOSA
    /\ ultima_pagina[2].nombre = CHACO
    /\ Evaluada
    /\ DOMAIN ultimo_estado = {FORMOSA}

----
\* Consecutive observations.

\* C22: in the drain-and-refill run the second pass, at 5000 after 8000, is
\* silent and leaves 5000 in the entry; a third pass that sees 8000 compares
\* it with that 5000 and alerts, though 8000 is not above the earlier 8000; a
\* third pass without the station leaves the entry at 5000, and the fourth
\* pass then compares its 8000 with that 5000 and alerts, while after a third
\* pass at 8000 the fourth, at 8000 again, is silent.
C22_ObservacionAnterior ==
    /\ (pasadas = 1 /\ Evaluada)
           => /\ existencia = 5000
              /\ previo = <<[disponible |-> TRUE, saldo |-> 8000]>>
              /\ SinNotificar
    /\ (pasadas = 2 /\ Evaluada)
           => /\ existencia = 8000
              /\ previo = <<[disponible |-> TRUE, saldo |-> 5000]>>
              /\ Notifica
    /\ (pasadas = 2 /\ pc = "retorno" /\ estacion = <<>>)
           => ultimo_estado[CHACO] = [disponible |-> TRUE, saldo |-> 5000]
    /\ (pasadas = 3 /\ Evaluada)
           => /\ existencia = 8000
              /\ previo # <<>>
              /\ previo[1].saldo \in {5000, 8000}
              /\ previo[1].saldo = 5000 => Notifica
              /\ previo[1].saldo = 8000 => SinNotificar

\* The station was missing in the third pass, and the fourth pass, comparing
\* 8000 with the 5000 of the second, has sent its message and made its call.
C22_Testigo ==
    /\ pasadas = 3
    /\ Evaluada
    /\ existencia = 8000
    /\ previo = <<[disponible |-> TRUE, saldo |-> 5000]>>
    /\ pc = "retorno"
    /\ envios_eval = 1
    /\ llamadas_eval = 1

----
\* Notifications that fail.

\* C23: the entry already holds the observation when the alert message is
\* sent and while the voice call runs; with both channels down, the pass that
\* sees 8000 after 0 alerts and both its message and its call fail, and the
\* next pass, at the same 8000 or at 5000, sends no message and makes no call:
\* the run still counts the one message and the one call of the second pass.
C23_SinReemision ==
    /\ pc \in {"telegram", "llamar", "llamada", "espera"}
           => /\ Clave \in DOMAIN ultimo_estado
              /\ ultimo_estado[Clave] =
                     [disponible |-> existencia > 0, saldo |-> existencia]
    /\ (pasadas = 1 /\ Evaluada)
           => /\ existencia = 8000
              /\ Notifica
              /\ pc \in {"llamar", "llamada", "espera", "retorno"}
                     => ultimo_envio = "False"
              /\ pc = "retorno" => resultado_llamada = "False"
    /\ (pasadas = 2 /\ Evaluada)
           => /\ Clave \in DOMAIN ultimo_estado
              /\ previo = <<[disponible |-> TRUE, saldo |-> 8000]>>
              /\ existencia \in {8000, 5000}
              /\ SinNotificar
              /\ alertas_telegram = 1
              /\ llamadas = 1

\* The pass after the failed alert sees the same 8000 and has returned
\* without a message or a call.
C23_Testigo ==
    /\ pasadas = 2
    /\ Evaluada
    /\ existencia = 8000
    /\ pc = "retorno"
    /\ envios_eval = 0
    /\ llamadas_eval = 0
    /\ alertas_telegram = 1
    /\ CALLMEBOT_MAX_RETRIES >= 2

----
\* Two fragments, one station.

\* C24: when both fragments of the watch list select the CHACO record and
\* both fetches of a pass show it at the same level, the evaluation for the
\* second fragment finds the entry the first one wrote in that pass, at that
\* very level, and sends no message and makes no call; the run counts at most
\* one message and one call per pass.
C24_UnaAlertaPorCiclo ==
    pasadas < Len(GuionMismaEstacion) =>
        /\ estacion # <<>> => Clave = CHACO
        /\ (i = 2 /\ Evaluada)
               => /\ existencia = GuionMismaEstacion[pasadas + 1]
                  /\ previo = <<[disponible |-> existencia > 0,
                                 saldo |-> existencia]>>
                  /\ SinNotificar
        /\ alertas_telegram <= pasadas
        /\ llamadas <= pasadas
        /\ i = 2 => alertas_telegram = llamadas

\* In the pass that found 5000 after 0 the first fragment alerted, and the
\* evaluation for the second fragment has returned without alerting.
C24_Testigo ==
    /\ nombres_surtidores = <<Fragmento_O, Fragmento_chaco>>
    /\ pasadas = 1
    /\ i = 2
    /\ Evaluada
    /\ existencia = 5000
    /\ pc = "retorno"
    /\ envios_eval = 0
    /\ llamadas_eval = 0
    /\ alertas_telegram = 1
    /\ llamadas = 1

----
\* What an evaluation leaves alone.

\* C25: the tracker changes only in the step that evaluates the record in
\* hand, and then only in the entry under that record's exact name, every
\* other entry staying as it was and none being dropped; and the decision to
\* alert is a function of the level observed, of the pass, and of that one
\* entry alone.
C25_PasoDeRegistro ==
    /\ ultimo_estado' # ultimo_estado
           => /\ pc = "evaluar"
              /\ DOMAIN ultimo_estado' = DOMAIN ultimo_estado \cup {Clave}
              /\ \A k \in DOMAIN ultimo_estado \ {Clave} :
                     ultimo_estado'[k] = ultimo_estado[k]
    /\ pc = "evaluar"
           => alerta' =
                  /\ existencia' > 0
                  /\ FueraDePrimerCiclo
                  /\ IF Clave \in DOMAIN ultimo_estado
                     THEN \/ existencia' > ultimo_estado[Clave].saldo
                          \/ ~ultimo_estado[Clave].disponible
                     ELSE TRUE

C25_SoloSuEntrada == [][C25_PasoDeRegistro]_vars

\* CHACO has just been evaluated at level 0 in a periodic pass while the
\* entry of FORMOSA says available at 8000.
C25_Testigo ==
    /\ pc = "retorno"
    /\ Evaluada
    /\ FueraDePrimerCiclo
    /\ Clave = CHACO
    /\ DOMAIN ultimo_estado = {CHACO, FORMOSA}
    /\ ultimo_estado[CHACO] = [disponible |-> FALSE, saldo |-> 0]
    /\ ultimo_estado[FORMOSA] = [disponible |-> TRUE, saldo |-> 8000]

----
\* The stop signal before and inside the polling loop.

\* C26: a stop signal raised in STARTING or FIRST_CYCLE ends the run at once,
\* and that run never sends the "monitoring stopped" message; a stop signal
\* raised at any step of STEADY_POLLING (the sleep, a fetch, an evaluation, a
\* send, a voice-call attempt or the wait between two attempts) leads to line
\* 426, and the run that ends from there has sent the message once.
C26_TrasLaSenal ==
    excepcion = "KeyboardInterrupt" =>
        /\ pc = "abortado"
               => /\ anuncio_detenido = 0
                  /\ es_primera_ejecucion
                  /\ pc_excepcion = "inicio" \/ ~enviar_alertas
        /\ pc \in {"detenido", "fin"}
               => /\ ~es_primera_ejecucion
                  /\ pc_excepcion = "sleep" \/ enviar_alertas
                  /\ anuncio_detenido = (IF pc = "fin" THEN 1 ELSE 0)

C26_PasoDeSenal ==
    /\ (excepcion = "" /\ excepcion' = "KeyboardInterrupt")
           => /\ Fase \in {"STARTING", "FIRST_CYCLE"}
                     => (pc' = "abortado" /\ anuncio_detenido' = 0)
              /\ Fase = "STEADY_POLLING" => pc' = "detenido"
              /\ Fase \in {"STARTING", "FIRST_CYCLE", "STEADY_POLLING"}
    /\ pc # "abortado"

C26_SenalSegunFase == []C26_TrasLaSenal /\ [][C26_PasoDeSenal]_vars

\* The signal came while the first cycle was evaluating a record, after the
\* start announcement: the run is over and no stop announcement was sent.
C26_Testigo ==
    /\ pc = "abortado"
    /\ excepcion = "KeyboardInterrupt"
    /\ pc_excepcion = "evaluar"
    /\ mensaje_inicial = 1
    /\ anuncio_detenido = 0
    /\ alertas_telegram = 0

====
